---------------------------- MODULE Spec2Model ----------------------------
(***************************************************************************)
(* A model of plugin/consensus/dpos/consensus_state.go: the ConsensusState *)
(* of the DPoS consensus participant.  The vote pool (AddVotes, ClearVotes,*)
(* CheckVotes), the current/last vote slots (SetCurrentVote, SaveVote),    *)
(* the cycle-boundary cache (UpdateCBInfo, GetCBInfoByCircle), the         *)
(* dispatcher (Start, Stop, receiveRoutine, handleMsg, handleTimeout),     *)
(* the accessors and setters called from other goroutines, and the         *)
(* verification of votes and notifies (VerifyVote, VerifyNotify).          *)
(*                                                                         *)
(* Byte strings (signatures, addresses, vote ids) are natural numbers.     *)
(* A nil pointer is Nil, a nil slice is the empty sequence.                *)
(***************************************************************************)
EXTENDS Integers, Sequences, FiniteSets, TLC

VARIABLES
    dposVotes,         \* cs.dposVotes: the vote pool
    currentVote,       \* cs.currentVote: *VoteItem or Nil
    lastVote,          \* cs.lastVote: *VoteItem or Nil
    myVote,            \* cs.myVote: *DPosVote or Nil
    cachedVotes,       \* cs.cachedVotes: the pool of votes for a later cycle
    dposDelegateNum,   \* the configured delegate count N
    ret,               \* what the most recent call returned (NoReturn: nothing)
    cycleBoundaryMap,  \* cs.cycleBoundaryMap: cycle -> DposCBInfo
    validatorMgr,      \* cs.validatorMgr
    started,           \* cs.started (atomic)
    stopped,           \* cs.stopped (atomic)
    startPc,           \* where the Start call that won the compare-and-swap is
    startCalls,        \* Start calls made
    launched,          \* receiveRoutine goroutines launched
    tickerStarts,      \* calls of cs.timeoutTicker.Start()
    initTimeouts,      \* initial timeouts scheduled by Start
    tickerRunning,     \* cs.timeoutTicker is started
    tockChan,          \* cs.timeoutTicker.Chan(): the timeouts that fired (0 or 1)
    pendingTimeout,    \* the timeouts scheduled and not fired yet (0 or 1)
    peerMsgQueue,      \* cs.peerMsgQueue
    internalMsgQueue,  \* cs.internalMsgQueue
    stopCalls,         \* Stop calls blocked in the send on cs.Quit
    stopReturned,      \* Stop calls that returned
    quitReceived,      \* receiveRoutine took the quit signal
    stopsNoLoop,       \* Stop calls made before Start or after receiveRoutine returned
    routine,           \* where the receiveRoutine goroutine is
    mtx,               \* who holds cs.mtx
    failureLogged,     \* "CONSENSUS FAILURE!!!" was logged
    accessor,          \* the accessor that holds cs.mtx ("idle": none)
    ourID,             \* cs.ourID
    broadcastChannel,  \* cs.broadcastChannel
    dposState          \* cs.dposState

poolVars == <<dposVotes, currentVote, lastVote, myVote>>
lifeVars == <<started, stopped, startPc, startCalls, launched, tickerStarts, initTimeouts>>
tickerVars == <<tickerRunning, tockChan, pendingTimeout>>
queueVars == <<peerMsgQueue, internalMsgQueue>>
stopVars == <<stopCalls, stopReturned, quitReceived, stopsNoLoop>>
routineVars == <<routine, mtx, failureLogged>>
callerVars == <<accessor, ourID, broadcastChannel, dposState>>
dispVars == <<lifeVars, tickerVars, queueVars, stopVars, routineVars, callerVars>>
vars == <<poolVars, cachedVotes, dposDelegateNum, ret, cycleBoundaryMap, validatorMgr, dispVars>>

---------------------------------------------------------------------------
(* Bounds of the model *)

\* voters (distinct voter_node_address values) in the vote-pool specification
NumVoters == 2
\* distinct signature values in the vote-pool specification
NumSignatures == 2
\* voters in the tally specification
NumTallyVoters == 3
\* the delegate counts N tried: 2..MaxDelegateNum
MaxDelegateNum == 4
\* cycle numbers of cycle-boundary infos: 0..MaxCycle
MaxCycle == 5
\* messages a queue of the dispatcher holds (msgQueueSize in the program)
MaxQueue == 2
\* Stop calls of the dispatcher model
MaxStopCalls == 2
\* Start calls of the dispatcher model
MaxStartCalls == 2
\* addresses a validator or a sender of a message may have
NumAddresses == 3

(* Program constants *)
continueToVote == 0
voteSuccess == 1
voteFail == 2

Nil == [nil |-> TRUE]
NoReturn == [none |-> TRUE]

Signatures == 1..NumSignatures
Timestamps == {1, 2}
VoteIDs == {1, 2}
Periods == {0, 1}
TallyVoteIDs == {1, 2, 3}

\* A VoteItem: the fields ConsensusState reads
MkItem(id, start) == [VoteID |-> id, PeriodStart |-> start, PeriodStop |-> start + 1]
VoteItems == {MkItem(id, p) : id \in VoteIDs, p \in Periods}

\* A DPosVote
MkVote(sig, addr, ts, item) ==
    [Signature |-> sig, VoterNodeAddress |-> addr, VoteTimestamp |-> ts, VoteItem |-> item]

\* The votes a peer may send: signature, voter, timestamp and period are
\* arbitrary (AddVotes does not read the vote_id: they endorse vote_id 1)
Votes == {MkVote(s, a, t, MkItem(1, p)) : s \in Signatures, a \in 1..NumVoters, t \in Timestamps, p \in Periods}

\* Votes signed by honest voters: the signature is determined by the content
TallyVotes ==
    {MkVote(100 * a + 10 * t + id, a, t, MkItem(id, 0)) :
        a \in 1..NumTallyVoters, t \in Timestamps, id \in TallyVoteIDs}

\* The delegate counts: from 2 on the majority M is at least one vote
DelegateNums == 2..MaxDelegateNum

---------------------------------------------------------------------------
(* The vote pool *)

\* The index at which the loop of AddVotes breaks (0: it runs to the end)
RECURSIVE FirstMatch(_, _, _)
FirstMatch(votes, vote, i) ==
    IF i > Len(votes) THEN 0
    ELSE IF votes[i].Signature = vote.Signature \/ votes[i].VoterNodeAddress = vote.VoterNodeAddress
         THEN i
         ELSE FirstMatch(votes, vote, i + 1)

\* A plausible bug: a vote that starts exactly at the stop of the last vote is
\* taken for an old one
IsOldVoteInclusive(last, vote) == last /= Nil /\ vote.VoteItem.PeriodStart <= last.PeriodStop

\* The staleness guard of AddVotes
IsOldVote(last, vote) == last /= Nil /\ vote.VoteItem.PeriodStart < last.PeriodStop

\* A plausible bug: the voter's address is never compared
AddVotesNoAddrCheck(votes, last, vote) ==
    IF IsOldVote(last, vote) THEN votes
    ELSE IF \E i \in 1..Len(votes) : votes[i].Signature = vote.Signature THEN votes
         ELSE Append(votes, vote)

\* A plausible bug: the replaced entry is cut out and the new vote is lost
AddVotesCutOld(votes, last, vote) ==
    IF IsOldVote(last, vote) THEN votes
    ELSE LET index == FirstMatch(votes, vote, 1) IN
         IF index = 0 THEN Append(votes, vote)
         ELSE IF votes[index].Signature = vote.Signature THEN votes
              ELSE IF vote.VoteTimestamp > votes[index].VoteTimestamp
                   THEN SubSeq(votes, 1, index - 1) \o SubSeq(votes, index + 1, Len(votes))
                   ELSE votes

\* A plausible bug: the newer vote of a voter is appended, its older one stays
AddVotesAppendNewer(votes, last, vote) ==
    IF IsOldVote(last, vote) THEN votes
    ELSE LET index == FirstMatch(votes, vote, 1) IN
         IF index = 0 THEN Append(votes, vote)
         ELSE IF votes[index].Signature = vote.Signature THEN votes
              ELSE IF vote.VoteTimestamp > votes[index].VoteTimestamp
                   THEN Append(votes, vote)
                   ELSE votes

\* A plausible bug: a vote with an equal timestamp replaces the voter's entry
AddVotesReplaceOnEqual(votes, last, vote) ==
    IF IsOldVote(last, vote) THEN votes
    ELSE LET index == FirstMatch(votes, vote, 1) IN
         IF index = 0 THEN Append(votes, vote)
         ELSE IF votes[index].Signature = vote.Signature THEN votes
              ELSE IF vote.VoteTimestamp >= votes[index].VoteTimestamp
                   THEN [votes EXCEPT ![index] = vote]
                   ELSE votes

\* cs.dposVotes after AddVotes(vote)
AddVotesResult(votes, last, vote) ==
    IF IsOldVote(last, vote) THEN votes
    ELSE LET index == FirstMatch(votes, vote, 1)
             repeatFlag == index /= 0 /\ votes[index].Signature = vote.Signature
             addrExistFlag == index /= 0 /\ ~repeatFlag
         IN  IF repeatFlag THEN votes
             ELSE IF ~addrExistFlag THEN Append(votes, vote)
                  ELSE IF vote.VoteTimestamp > votes[index].VoteTimestamp
                       THEN [votes EXCEPT ![index] = vote]
                       ELSE votes

AddVotes(vote) ==
    /\ dposVotes' = AddVotesResult(dposVotes, lastVote, vote)
    /\ ret' = NoReturn
    /\ UNCHANGED <<currentVote, lastVote, myVote, dposDelegateNum, cycleBoundaryMap, dispVars, validatorMgr, cachedVotes>>

ClearVotes ==
    /\ dposVotes' = <<>>
    /\ currentVote' = Nil
    /\ myVote' = Nil
    /\ ret' = NoReturn
    /\ UNCHANGED <<lastVote, dposDelegateNum, cycleBoundaryMap, dispVars, validatorMgr, cachedVotes>>

SetCurrentVote(vote) ==
    /\ currentVote' = vote
    /\ ret' = NoReturn
    /\ UNCHANGED <<dposVotes, lastVote, myVote, dposDelegateNum, cycleBoundaryMap, dispVars, validatorMgr, cachedVotes>>

\* A plausible bug: the current vote is adopted without the nil check
SaveVoteNoNilCheck ==
    /\ lastVote' = IF lastVote = Nil \/ currentVote = Nil \/ currentVote.VoteID /= lastVote.VoteID
                   THEN currentVote ELSE lastVote
    /\ ret' = NoReturn
    /\ UNCHANGED <<dposVotes, currentVote, myVote, dposDelegateNum, cycleBoundaryMap, dispVars, validatorMgr, cachedVotes>>

SaveVote ==
    /\ lastVote' = IF lastVote = Nil THEN currentVote
                   ELSE IF currentVote /= Nil /\ currentVote.VoteID /= lastVote.VoteID
                        THEN currentVote
                        ELSE lastVote
    /\ ret' = NoReturn
    /\ UNCHANGED <<dposVotes, currentVote, myVote, dposDelegateNum, cycleBoundaryMap, dispVars, validatorMgr, cachedVotes>>

\* A plausible bug: a vote with an equal timestamp replaces the voter's
\* cached entry
CacheVotesReplaceOnEqual(votes, vote) ==
    LET index == FirstMatch(votes, vote, 1) IN
    IF index = 0 THEN Append(votes, vote)
    ELSE IF votes[index].Signature = vote.Signature THEN votes
         ELSE IF vote.VoteTimestamp >= votes[index].VoteTimestamp
              THEN [votes EXCEPT ![index] = vote]
              ELSE votes

\* cs.cachedVotes after CacheVotes(vote)
CacheVotesResult(votes, vote) ==
    LET index == FirstMatch(votes, vote, 1)
        repeatFlag == index /= 0 /\ votes[index].Signature = vote.Signature
        addrExistFlag == index /= 0 /\ ~repeatFlag
    IN  IF repeatFlag THEN votes
        ELSE IF ~addrExistFlag THEN Append(votes, vote)
             ELSE IF vote.VoteTimestamp > votes[index].VoteTimestamp
                  THEN [votes EXCEPT ![index] = vote]
                  ELSE votes

CacheVotes(vote) ==
    /\ cachedVotes' = CacheVotesResult(cachedVotes, vote)
    /\ ret' = NoReturn
    /\ UNCHANGED <<poolVars, dposDelegateNum, cycleBoundaryMap, dispVars, validatorMgr>>

ClearCachedVotes ==
    /\ cachedVotes' = <<>>
    /\ ret' = NoReturn
    /\ UNCHANGED <<poolVars, dposDelegateNum, cycleBoundaryMap, dispVars, validatorMgr>>

\* The same vote given to AddVotes and then to CacheVotes
AddAndCacheVotes(vote) ==
    /\ dposVotes' = AddVotesResult(dposVotes, lastVote, vote)
    /\ cachedVotes' = CacheVotesResult(cachedVotes, vote)
    /\ ret' = NoReturn
    /\ UNCHANGED <<currentVote, lastVote, myVote, dposDelegateNum, cycleBoundaryMap, dispVars,
                   validatorMgr>>

---------------------------------------------------------------------------
(* The tally *)

\* major32 := int(dposDelegateNum * 2 / 3)
Major32(n) == (n * 2) \div 3

\* voteStat: vote_id -> the number of pool entries that carry it
VoteStat(votes) ==
    [k \in {votes[i].VoteItem.VoteID : i \in 1..Len(votes)} |->
        Cardinality({i \in 1..Len(votes) : votes[i].VoteItem.VoteID = k})]

\* The orders in which a range over a map with the keys S may visit them:
\* Go leaves the iteration order of a map unspecified
RECURSIVE RangeOrders(_)
RangeOrders(S) ==
    IF S = {} THEN {<<>>}
    ELSE UNION {{<<k>> \o o : o \in RangeOrders(S \ {k})} : k \in S}

\* The loop over voteStat: key and value after the keys order[i..] are visited
\* (key "" is 0)
RECURSIVE MaxEntry(_, _, _, _, _)
MaxEntry(stat, order, i, key, value) ==
    IF i > Len(order) THEN [key |-> key, value |-> value]
    ELSE IF stat[order[i]] > value
         THEN MaxEntry(stat, order, i + 1, order[i], stat[order[i]])
         ELSE MaxEntry(stat, order, i + 1, key, value)

\* The first pool entry whose vote_id is key (0: none)
RECURSIVE FirstWithID(_, _, _)
FirstWithID(votes, key, i) ==
    IF i > Len(votes) THEN 0
    ELSE IF votes[i].VoteItem.VoteID = key THEN i
         ELSE FirstWithID(votes, key, i + 1)

\* A plausible bug: the majority must be exceeded, not reached
CheckVotesStrictMajority(votes, n, order) ==
    LET major32 == Major32(n) IN
    IF Len(votes) < major32 THEN [ty |-> continueToVote, vote |-> Nil]
    ELSE LET m == MaxEntry(VoteStat(votes), order, 1, 0, 0)
             i == FirstWithID(votes, m.key, 1)
         IN  IF m.value > major32 /\ i /= 0
             THEN [ty |-> voteSuccess, vote |-> votes[i].VoteItem]
             ELSE IF m.value <= major32 /\ m.value + (n - Len(votes)) < major32
                  THEN [ty |-> voteFail, vote |-> Nil]
                  ELSE [ty |-> continueToVote, vote |-> Nil]

\* What CheckVotes returns for the pool votes and the delegate count n when
\* the range over voteStat visits the keys in this order
CheckVotesResult(votes, n, order) ==
    LET major32 == Major32(n) IN
    IF Len(votes) < major32 THEN [ty |-> continueToVote, vote |-> Nil]
    ELSE LET m == MaxEntry(VoteStat(votes), order, 1, 0, 0)
             i == FirstWithID(votes, m.key, 1)
         IN  IF m.value >= major32
             THEN IF i /= 0
                  THEN [ty |-> voteSuccess, vote |-> votes[i].VoteItem]
                  ELSE [ty |-> continueToVote, vote |-> Nil]
             ELSE IF m.value + (n - Len(votes)) < major32
                  THEN [ty |-> voteFail, vote |-> Nil]
                  ELSE [ty |-> continueToVote, vote |-> Nil]

CheckVotes ==
    /\ \E order \in RangeOrders(DOMAIN VoteStat(dposVotes)) :
           ret' = CheckVotesResult(dposVotes, dposDelegateNum, order)
    /\ UNCHANGED <<dposVotes, currentVote, lastVote, myVote, dposDelegateNum, cycleBoundaryMap, dispVars, validatorMgr, cachedVotes>>

---------------------------------------------------------------------------
(* The cycle-boundary cache *)

\* The capacity of cycleBoundaryMap
CBCapacity == 5

StopHeights == {1, 2}

\* A DposCBInfo: its cycle and what the cycle's record says
CBInfos == [Cycle : 0..MaxCycle, StopHeight : StopHeights]

\* The loop of UpdateCBInfo over the keys, none of them info.Cycle:
\* oldestCycle after the keys order[i..] are visited
RECURSIVE OldestCycle(_, _, _)
OldestCycle(order, i, oldestCycle) ==
    IF i > Len(order) THEN oldestCycle
    ELSE OldestCycle(order, i + 1,
                     IF oldestCycle = 0 THEN order[i]
                     ELSE IF oldestCycle > order[i] THEN order[i]
                          ELSE oldestCycle)

\* delete(m, k) and m[k] = v
MapDelete(m, k) == [c \in DOMAIN m \ {k} |-> m[c]]
MapPut(m, k, v) == [c \in DOMAIN m \cup {k} |-> IF c = k THEN v ELSE m[c]]

\* A plausible bug: the entry is evicted only above the capacity
UpdateCBInfoLateEviction(map, info, order) ==
    LET valueNumber == Cardinality(DOMAIN map) IN
    IF valueNumber = 0 THEN MapPut(map, info.Cycle, info)
    ELSE IF info.Cycle \in DOMAIN map THEN MapPut(map, info.Cycle, info)
         ELSE LET oldestCycle == OldestCycle(order, 1, 0)
              IN  MapPut(IF valueNumber > CBCapacity THEN MapDelete(map, oldestCycle) ELSE map,
                         info.Cycle, info)

\* A plausible bug: a full cache evicts before it looks for the key
UpdateCBInfoEvictFirst(map, info, order) ==
    LET valueNumber == Cardinality(DOMAIN map) IN
    IF valueNumber = 0 THEN MapPut(map, info.Cycle, info)
    ELSE LET oldestCycle == OldestCycle(order, 1, 0)
         IN  MapPut(IF valueNumber >= CBCapacity THEN MapDelete(map, oldestCycle) ELSE map,
                    info.Cycle, info)

\* cs.cycleBoundaryMap after UpdateCBInfo(info) when the range over the map
\* visits the keys in this order
UpdateCBInfoResult(map, info, order) ==
    LET valueNumber == Cardinality(DOMAIN map) IN
    IF valueNumber = 0 THEN MapPut(map, info.Cycle, info)
    ELSE IF info.Cycle \in DOMAIN map THEN MapPut(map, info.Cycle, info)
         ELSE LET oldestCycle == OldestCycle(order, 1, 0)
              IN  MapPut(IF valueNumber >= CBCapacity THEN MapDelete(map, oldestCycle) ELSE map,
                         info.Cycle, info)

UpdateCBInfo(info) ==
    /\ \E order \in RangeOrders(DOMAIN cycleBoundaryMap) :
           cycleBoundaryMap' = UpdateCBInfoResult(cycleBoundaryMap, info, order)
    /\ ret' = NoReturn
    /\ UNCHANGED <<poolVars, dposDelegateNum, dispVars, validatorMgr, cachedVotes>>

\* What GetCBInfoByCircle(cycle) returns
GetCBInfoResult(map, cycle) == IF cycle \in DOMAIN map THEN map[cycle] ELSE Nil

GetCBInfoByCircle(cycle) ==
    /\ ret' = GetCBInfoResult(cycleBoundaryMap, cycle)
    /\ UNCHANGED <<poolVars, dposDelegateNum, cycleBoundaryMap, dispVars, validatorMgr, cachedVotes>>

---------------------------------------------------------------------------
(* The dispatcher *)

\* The messages a MsgInfo carries (two of the types handleMsg switches on)
MsgTypes == {"DPosVote", "DPosNotify"}

\* The state objects cs.dposState points to
StateObjs == {"InitStateObj", "VotingStateObj", "VotedStateObj", "WaitNotifyStateObj"}

\* The ids and the channels SetOurID and SetBroadcastChannel are given
\* (0: the zero value the constructor leaves)
IDs == {0, 1}

\* The tickers SetTimeoutTicker is given: started or not, with or without a
\* scheduled timeout, with or without a timeout on the channel
Tickers == [running : BOOLEAN, pending : {0, 1}, tock : {0, 1}]

\* The accessors that take cs.mtx
Accessors == {"GetValidatorMgr", "GetValidators", "SetPrivValidator", "SetTimeoutTicker"}

poolAndCache == <<poolVars, cachedVotes, dposDelegateNum, ret, cycleBoundaryMap, validatorMgr>>

\* A plausible bug: started is set without being tested
StartUnguarded ==
    /\ startCalls < MaxStartCalls
    /\ startCalls' = startCalls + 1
    /\ started' = 1
    /\ startPc' = "tickerStart"
    /\ UNCHANGED <<stopped, launched, tickerStarts, initTimeouts, tickerVars, queueVars,
                   stopVars, routineVars, callerVars, poolAndCache>>

\* Start: the compare-and-swap of started lets one call through
Start ==
    /\ startCalls < MaxStartCalls
    /\ startCalls' = startCalls + 1
    /\ IF started = 0
       THEN /\ started' = 1
            /\ startPc' = "tickerStart"
       ELSE UNCHANGED <<started, startPc>>
    /\ UNCHANGED <<stopped, launched, tickerStarts, initTimeouts, tickerVars, queueVars,
                   stopVars, routineVars, callerVars, poolAndCache>>

\* What IsRunning returns
IsRunningResult(startedFlag, stoppedFlag) == startedFlag = 1 /\ stoppedFlag = 0

IsRunning ==
    /\ ret' = [bool |-> IsRunningResult(started, stopped)]
    /\ UNCHANGED <<poolVars, cachedVotes, dposDelegateNum, cycleBoundaryMap, validatorMgr,
                   dispVars>>

\* Start, the call that won: cs.timeoutTicker.Start(), without cs.mtx
StartTicker ==
    /\ startPc = "tickerStart"
    /\ tickerRunning' = TRUE
    /\ tickerStarts' = tickerStarts + 1
    /\ startPc' = "go"
    /\ UNCHANGED <<started, stopped, startCalls, launched, initTimeouts, tockChan,
                   pendingTimeout, queueVars, stopVars, routineVars, callerVars, poolAndCache>>

\* Start, the call that won: go cs.receiveRoutine()
StartGo ==
    /\ startPc = "go"
    /\ routine' = "loop"
    /\ launched' = launched + 1
    /\ startPc' = "schedule"
    /\ UNCHANGED <<started, stopped, startCalls, tickerStarts, initTimeouts, tickerVars,
                   queueVars, stopVars, mtx, failureLogged, callerVars, poolAndCache>>

\* Start, the call that won: cs.scheduleDPosTimeout(time.Second*3, InitStateType),
\* without cs.mtx
StartSchedule ==
    /\ startPc = "schedule"
    /\ pendingTimeout' = 1
    /\ initTimeouts' = initTimeouts + 1
    /\ startPc' = "done"
    /\ UNCHANGED <<started, stopped, startCalls, launched, tickerStarts, tickerRunning,
                   tockChan, queueVars, stopVars, routineVars, callerVars, poolAndCache>>

\* A plausible bug: Stop records that the dispatcher was stopped
StopSetsStopped ==
    /\ stopCalls + stopReturned < MaxStopCalls
    /\ tickerRunning' = FALSE
    /\ stopped' = 1
    /\ stopCalls' = stopCalls + 1
    /\ stopsNoLoop' = IF started = 0 \/ routine = "returned" THEN stopsNoLoop + 1 ELSE stopsNoLoop
    /\ UNCHANGED <<started, startPc, startCalls, launched, tickerStarts, initTimeouts, tockChan,
                   pendingTimeout, queueVars, stopReturned, quitReceived, routineVars,
                   callerVars, poolAndCache>>

\* A plausible bug: cs.Quit has room for the signal, so that Stop returns at once
StopBuffered ==
    /\ stopCalls + stopReturned < MaxStopCalls
    /\ tickerRunning' = FALSE
    /\ stopReturned' = stopReturned + 1
    /\ stopsNoLoop' = IF started = 0 \/ routine = "returned" THEN stopsNoLoop + 1 ELSE stopsNoLoop
    /\ UNCHANGED <<lifeVars, tockChan, pendingTimeout, queueVars, stopCalls, quitReceived,
                   routineVars, callerVars, poolAndCache>>

\* Stop, up to its send on the unbuffered cs.Quit, where it blocks
Stop ==
    /\ stopCalls + stopReturned < MaxStopCalls
    /\ tickerRunning' = FALSE
    /\ stopCalls' = stopCalls + 1
    /\ stopsNoLoop' = IF started = 0 \/ routine = "returned" THEN stopsNoLoop + 1 ELSE stopsNoLoop
    /\ UNCHANGED <<lifeVars, tockChan, pendingTimeout, queueVars, stopReturned, quitReceived,
                   routineVars, callerVars, poolAndCache>>

\* A peer puts a message on cs.peerMsgQueue
PeerSend(mi) ==
    /\ Len(peerMsgQueue) < MaxQueue
    /\ peerMsgQueue' = Append(peerMsgQueue, mi)
    /\ UNCHANGED <<lifeVars, tickerVars, internalMsgQueue, stopVars, routineVars, callerVars,
                   poolAndCache>>

\* sendInternalMessage: the send, by the caller or, the queue being full, by
\* the goroutine it leaves behind, which waits for room
sendInternalMessage(mi) ==
    /\ Len(internalMsgQueue) < MaxQueue
    /\ internalMsgQueue' = Append(internalMsgQueue, mi)
    /\ UNCHANGED <<lifeVars, tickerVars, peerMsgQueue, stopVars, routineVars, callerVars,
                   poolAndCache>>

\* The ticker delivers the scheduled timeout on its channel
TimeoutFires ==
    /\ tickerRunning
    /\ pendingTimeout = 1
    /\ tockChan = 0
    /\ pendingTimeout' = 0
    /\ tockChan' = 1
    /\ UNCHANGED <<lifeVars, tickerRunning, queueVars, stopVars, routineVars, callerVars,
                   poolAndCache>>

\* receiveRoutine, the top of the for loop: the select evaluates its channel
\* operands cs.peerMsgQueue, cs.internalMsgQueue, cs.timeoutTicker.Chan() and
\* cs.Quit, without cs.mtx, and waits
EnterSelect ==
    /\ routine = "loop"
    /\ routine' = "select"
    /\ UNCHANGED <<lifeVars, tickerVars, queueVars, stopVars, mtx, failureLogged, callerVars,
                   poolAndCache>>

\* receiveRoutine: the select takes a message of the peer queue
RecvPeerMsg ==
    /\ routine = "select"
    /\ peerMsgQueue /= <<>>
    /\ peerMsgQueue' = Tail(peerMsgQueue)
    /\ routine' = "handleMsg"
    /\ UNCHANGED <<lifeVars, tickerVars, internalMsgQueue, stopVars, mtx, failureLogged,
                   callerVars, poolAndCache>>

\* receiveRoutine: the select takes a message of the internal queue
RecvInternalMsg ==
    /\ routine = "select"
    /\ internalMsgQueue /= <<>>
    /\ internalMsgQueue' = Tail(internalMsgQueue)
    /\ routine' = "handleMsg"
    /\ UNCHANGED <<lifeVars, tickerVars, peerMsgQueue, stopVars, mtx, failureLogged,
                   callerVars, poolAndCache>>

\* receiveRoutine: the select takes a timeout
RecvTimeout ==
    /\ routine = "select"
    /\ tockChan = 1
    /\ tockChan' = 0
    /\ routine' = "handleTimeout"
    /\ UNCHANGED <<lifeVars, tickerRunning, pendingTimeout, queueVars, stopVars, mtx,
                   failureLogged, callerVars, poolAndCache>>

\* A plausible bug: the quit case leaves the select with break, not the loop
RecvQuitBreak ==
    /\ routine = "select"
    /\ stopCalls > 0
    /\ stopCalls' = stopCalls - 1
    /\ stopReturned' = stopReturned + 1
    /\ quitReceived' = TRUE
    /\ routine' = "loop"
    /\ UNCHANGED <<stopsNoLoop, lifeVars, tickerVars, queueVars, mtx, failureLogged, callerVars,
                   poolAndCache>>

\* receiveRoutine: the select takes the quit signal of a blocked Stop, which
\* returns; receiveRoutine returns
RecvQuit ==
    /\ routine = "select"
    /\ stopCalls > 0
    /\ stopCalls' = stopCalls - 1
    /\ stopReturned' = stopReturned + 1
    /\ quitReceived' = TRUE
    /\ routine' = "returned"
    /\ UNCHANGED <<stopsNoLoop, lifeVars, tickerVars, queueVars, mtx, failureLogged, callerVars,
                   poolAndCache>>

\* Where receiveRoutine is while the handler of the state runs
InHandler == {"recvMsg", "timeOut"}

\* A plausible bug: the handler of the state is entered without cs.mtx
HandlerNoLock ==
    /\ routine \in {"handleMsg", "handleTimeout"}
    /\ routine' = IF routine = "handleMsg" THEN "recvMsg" ELSE "timeOut"
    /\ UNCHANGED <<lifeVars, tickerVars, queueVars, stopVars, mtx, failureLogged, callerVars,
                   poolAndCache>>

\* handleMsg, handleTimeout: cs.mtx.Lock(); the handler of the state is entered
HandlerLock ==
    /\ routine \in {"handleMsg", "handleTimeout"}
    /\ mtx = "free"
    /\ mtx' = "dispatcher"
    /\ routine' = IF routine = "handleMsg" THEN "recvMsg" ELSE "timeOut"
    /\ UNCHANGED <<lifeVars, tickerVars, queueVars, stopVars, failureLogged, callerVars,
                   poolAndCache>>

\* handleMsg, handleTimeout: the handler of the state returns, having
\* scheduled a timeout or not and having left cs.dposState at this state (SetState);
\* the deferred Unlock runs and the loop goes on
HandlerReturn(schedule, state) ==
    /\ routine \in InHandler
    /\ mtx' = "free"
    /\ routine' = "loop"
    /\ pendingTimeout' = IF schedule THEN 1 ELSE pendingTimeout
    /\ dposState' = state
    /\ UNCHANGED <<lifeVars, tickerRunning, tockChan, queueVars, stopVars, failureLogged,
                   accessor, ourID, broadcastChannel, poolAndCache>>

\* handleMsg, handleTimeout: the handler of the state panics; the deferred
\* Unlock runs, the panic unwinds the loop to the deferred function of
\* receiveRoutine, which recovers, logs "CONSENSUS FAILURE!!!" and lets
\* receiveRoutine return
HandlerPanic ==
    /\ routine \in InHandler
    /\ mtx' = "free"
    /\ failureLogged' = TRUE
    /\ routine' = "returned"
    /\ UNCHANGED <<lifeVars, tickerVars, queueVars, stopVars, callerVars, poolAndCache>>

\* GetValidatorMgr, GetValidators, SetPrivValidator, SetTimeoutTicker:
\* cs.mtx.Lock()
AccessorLock(name) ==
    /\ accessor = "idle"
    /\ mtx = "free"
    /\ mtx' = "accessor"
    /\ accessor' = name
    /\ UNCHANGED <<lifeVars, tickerVars, queueVars, stopVars, routine, failureLogged, ourID,
                   broadcastChannel, dposState, poolAndCache>>

\* GetValidatorMgr, GetValidators, SetPrivValidator: the body and the
\* deferred Unlock
AccessorReturn ==
    /\ accessor \in Accessors \ {"SetTimeoutTicker"}
    /\ mtx' = "free"
    /\ accessor' = "idle"
    /\ UNCHANGED <<lifeVars, tickerVars, queueVars, stopVars, routine, failureLogged, ourID,
                   broadcastChannel, dposState, poolAndCache>>

\* SetTimeoutTicker: cs.timeoutTicker = timeoutTicker and the deferred Unlock
SetTimeoutTicker(ticker) ==
    /\ accessor = "SetTimeoutTicker"
    /\ tickerRunning' = ticker.running
    /\ pendingTimeout' = ticker.pending
    /\ tockChan' = ticker.tock
    /\ mtx' = "free"
    /\ accessor' = "idle"
    /\ UNCHANGED <<lifeVars, queueVars, stopVars, routine, failureLogged, ourID,
                   broadcastChannel, dposState, poolAndCache>>

\* SetOurID: cs.ourID = id, without cs.mtx
SetOurID(id) ==
    /\ ourID' = id
    /\ UNCHANGED <<lifeVars, tickerVars, queueVars, stopVars, routineVars, accessor,
                   broadcastChannel, dposState, poolAndCache>>

\* SetBroadcastChannel: cs.broadcastChannel = broadcastChannel, without cs.mtx
SetBroadcastChannel(ch) ==
    /\ broadcastChannel' = ch
    /\ UNCHANGED <<lifeVars, tickerVars, queueVars, stopVars, routineVars, accessor, ourID,
                   dposState, poolAndCache>>

---------------------------------------------------------------------------
(* The validator manager and the verification of votes and notifies *)

Addresses == 1..NumAddresses

\* The bytes of a validator's public key: 0 stands for bytes that are no key
PubKeyBytes == {0, 1, 2}

ChainIDs == {1, 2}

\* A signature: the key that made it (0: none, the bytes are garbage), the
\* chain id bound into the signed payload, and whether the payload it was
\* made over is the one the message carries
SignatureValues == [key : {0, 1, 2}, chain : ChainIDs, intact : BOOLEAN]

SignedVotes == [VoterNodeAddress : Addresses, Signature : SignatureValues]

SignedNotifies == [NotifyNodeAddress : Addresses, Signature : SignatureValues]

ValidatorRecs == [Address : Addresses, PubKey : PubKeyBytes]

\* The validator sets: kept sorted by address, one validator per address
ValidatorSets ==
    {vs \in UNION {[1..n -> ValidatorRecs] : n \in 0..NumAddresses} :
        \A i \in 1..(Len(vs) - 1) : vs[i].Address < vs[i + 1].Address}

ValidatorMgrs == [ChainID : ChainIDs, Validators : ValidatorSets]

\* The manager NewConsensusState is given: every address is a validator
GenesisValMgr == [ChainID |-> 1, Validators |-> [i \in Addresses |-> [Address |-> i, PubKey |-> 1]]]

\* Validators.GetByAddress: the index and the validator, or (-1, nil)
GetByAddress(validators, address) ==
    IF \E i \in 1..Len(validators) : validators[i].Address = address
    THEN LET i == CHOOSE j \in 1..Len(validators) : validators[j].Address = address
         IN  [index |-> i - 1, val |-> validators[i]]
    ELSE [index |-> -1, val |-> Nil]

\* ConsensusCrypto.PubKeyFromBytes
PubKeyFromBytes(bytes) ==
    IF bytes = 0 THEN [err |-> TRUE, pubkey |-> Nil] ELSE [err |-> FALSE, pubkey |-> bytes]

\* Vote.Verify, Notify.Verify: TRUE when no error is returned
Verify(signature, chainID, pubkey) ==
    signature.key = pubkey /\ signature.chain = chainID /\ signature.intact

\* A plausible bug: a message of a validator passes without its signature
\* being verified
VerifyNoSignature(mgr, address, signature) ==
    LET found == GetByAddress(mgr.Validators, address) IN
    IF found.index = -1 /\ found.val = Nil THEN FALSE
    ELSE ~PubKeyFromBytes(found.val.PubKey).err

\* What VerifyVote and VerifyNotify, which differ in the name of the address
\* field only, return
VerifyResult(mgr, address, signature) ==
    LET found == GetByAddress(mgr.Validators, address) IN
    IF found.index = -1 /\ found.val = Nil THEN FALSE
    ELSE LET key == PubKeyFromBytes(found.val.PubKey) IN
         IF key.err THEN FALSE
         ELSE Verify(signature, mgr.ChainID, key.pubkey)

\* A bool a call returned, as a value of ret
Bool(b) == [bool |-> b]

VerifyVote(vote) ==
    /\ ret' = Bool(VerifyResult(validatorMgr, vote.VoterNodeAddress, vote.Signature))
    /\ UNCHANGED <<poolVars, dposDelegateNum, cycleBoundaryMap, dispVars, validatorMgr, cachedVotes>>

VerifyNotify(notify) ==
    /\ ret' = Bool(VerifyResult(validatorMgr, notify.NotifyNodeAddress, notify.Signature))
    /\ UNCHANGED <<poolVars, dposDelegateNum, cycleBoundaryMap, dispVars, validatorMgr, cachedVotes>>

updateToValMgr(valMgr) ==
    /\ validatorMgr' = valMgr
    /\ ret' = NoReturn
    /\ UNCHANGED <<poolVars, cachedVotes, dposDelegateNum, cycleBoundaryMap, dispVars>>

---------------------------------------------------------------------------
(* Initial states *)

InitPool ==
    /\ dposVotes = <<>>
    /\ cachedVotes = <<>>
    /\ currentVote = Nil
    /\ lastVote = Nil
    /\ myVote = Nil
    /\ ret = NoReturn

InitCB == cycleBoundaryMap = <<>>

InitDisp ==
    /\ started = 0
    /\ stopped = 0
    /\ startPc = "none"
    /\ startCalls = 0
    /\ launched = 0
    /\ tickerStarts = 0
    /\ initTimeouts = 0
    /\ tickerRunning = FALSE
    /\ tockChan = 0
    /\ pendingTimeout = 0
    /\ peerMsgQueue = <<>>
    /\ internalMsgQueue = <<>>
    /\ stopCalls = 0
    /\ stopReturned = 0
    /\ quitReceived = FALSE
    /\ stopsNoLoop = 0
    /\ routine = "none"
    /\ mtx = "free"
    /\ failureLogged = FALSE
    /\ accessor = "idle"
    /\ ourID = 0
    /\ broadcastChannel = 0
    /\ dposState = "InitStateObj"

\* NewConsensusState
Init ==
    /\ InitPool
    /\ InitCB
    /\ InitDisp
    /\ dposDelegateNum = MaxDelegateNum
    /\ validatorMgr = GenesisValMgr

---------------------------------------------------------------------------
(* The vote pool and the vote slots under arbitrary votes *)

Next ==
    \/ \E vote \in Votes : AddVotes(vote)
    \/ ClearVotes
    \/ \E vote \in VoteItems \cup {Nil} : SetCurrentVote(vote)
    \/ SaveVote

Spec == Init /\ [][Next]_vars

---------------------------------------------------------------------------
(* The vote pool and the cached pool fed side by side *)

\* Either no last vote is recorded, or one whose period stops after the start
\* of every vote that arrives
InitCache ==
    /\ dposVotes = <<>>
    /\ cachedVotes = <<>>
    /\ currentVote = Nil
    /\ lastVote \in {Nil, MkItem(1, 1)}
    /\ myVote = Nil
    /\ ret = NoReturn
    /\ InitCB
    /\ InitDisp
    /\ dposDelegateNum = MaxDelegateNum
    /\ validatorMgr = GenesisValMgr

\* With no last vote every vote goes to both pools; with a last vote the
\* cached pool is also fed and cleared on its own
NextCache ==
    \/ \E vote \in Votes : AddAndCacheVotes(vote)
    \/ \E vote \in Votes : lastVote /= Nil /\ CacheVotes(vote)
    \/ lastVote /= Nil /\ ClearCachedVotes

SpecCache == InitCache /\ [][NextCache]_vars

---------------------------------------------------------------------------
(* The tally over pools of honestly signed votes, for every delegate count *)

InitTally ==
    /\ InitPool
    /\ InitCB
    /\ InitDisp
    /\ dposDelegateNum \in DelegateNums
    /\ validatorMgr = GenesisValMgr

NextTally ==
    \/ \E vote \in TallyVotes : AddVotes(vote)
    \/ ClearVotes
    \/ CheckVotes

SpecTally == InitTally /\ [][NextTally]_vars

---------------------------------------------------------------------------
(* The cycle-boundary cache under arbitrary infos *)

NextCB ==
    \/ \E info \in CBInfos : UpdateCBInfo(info)
    \/ \E cycle \in 0..MaxCycle : GetCBInfoByCircle(cycle)

SpecCB == Init /\ [][NextCB]_vars

---------------------------------------------------------------------------
(* The dispatcher and its callers *)

\* The steps of the Start call that won, of the ticker and of receiveRoutine
DispatcherStep ==
    \/ StartTicker
    \/ StartGo
    \/ StartSchedule
    \/ TimeoutFires
    \/ EnterSelect
    \/ RecvPeerMsg
    \/ RecvInternalMsg
    \/ RecvTimeout
    \/ RecvQuit
    \/ HandlerLock
    \/ HandlerPanic

\* The lifecycle of the dispatcher: the state handlers leave cs.dposState
\* as it is
NextDisp ==
    \/ Start
    \/ Stop
    \/ \E mi \in MsgTypes : PeerSend(mi)
    \/ \E mi \in MsgTypes : sendInternalMessage(mi)
    \/ DispatcherStep
    \/ \E schedule \in BOOLEAN : HandlerReturn(schedule, dposState)

SpecDisp == Init /\ [][NextDisp]_vars

\* The scheduler lets every goroutine that can step do so, the handler of a
\* state returns or panics, and the select, which chooses at random among
\* its ready cases, does not pass over a waiting Stop for ever
FairDisp ==
    /\ WF_vars(StartTicker)
    /\ WF_vars(StartGo)
    /\ WF_vars(StartSchedule)
    /\ WF_vars(EnterSelect)
    /\ WF_vars(HandlerLock)
    /\ WF_vars(HandlerPanic \/ \E schedule \in BOOLEAN : HandlerReturn(schedule, dposState))
    /\ SF_vars(RecvQuit)

SpecDispFair == SpecDisp /\ FairDisp

---------------------------------------------------------------------------
(* The life of the dispatcher as IsRunning and the callers of Stop see it *)

NextLife ==
    \/ Start
    \/ StartTicker
    \/ StartGo
    \/ StartSchedule
    \/ Stop
    \/ IsRunning
    \/ PeerSend("DPosVote")
    \/ EnterSelect
    \/ RecvPeerMsg
    \/ RecvQuit
    \/ HandlerLock
    \/ HandlerReturn(FALSE, dposState)
    \/ HandlerPanic

SpecLife == Init /\ [][NextLife]_vars

---------------------------------------------------------------------------
(* The dispatcher with the callers of the accessors and of the setters *)

NextConc ==
    \/ Start
    \/ Stop
    \/ PeerSend("DPosVote")
    \/ sendInternalMessage("DPosVote")
    \/ DispatcherStep
    \/ \E schedule \in BOOLEAN : \E state \in StateObjs : HandlerReturn(schedule, state)
    \/ \E name \in Accessors : AccessorLock(name)
    \/ AccessorReturn
    \/ \E ticker \in Tickers : SetTimeoutTicker(ticker)
    \/ \E id \in IDs : SetOurID(id)
    \/ \E ch \in IDs : SetBroadcastChannel(ch)

SpecConc == Init /\ [][NextConc]_vars

---------------------------------------------------------------------------
(* The verification of signed messages under every validator manager *)

NextVerify ==
    \/ \E vote \in SignedVotes : VerifyVote(vote)
    \/ \E notify \in SignedNotifies : VerifyNotify(notify)
    \/ \E valMgr \in ValidatorMgrs : updateToValMgr(valMgr)

SpecVerify == Init /\ [][NextVerify]_vars

---------------------------------------------------------------------------
(* Properties of the vote pool and of the vote slots *)

SigInPool(vote) == \E i \in 1..Len(dposVotes) : dposVotes[i].Signature = vote.Signature

\* C1: the vote pool contains no two entries with equal signatures, whatever
\* votes arrive, in every state reachable by AddVotes, ClearVotes,
\* SetCurrentVote and SaveVote from an empty pool.
NoTwoEqualSignatures ==
    \A i, j \in 1..Len(dposVotes) :
        i /= j => dposVotes[i].Signature /= dposVotes[j].Signature

\* C2: the vote pool contains no two entries with equal voter_node_address.
NoTwoEqualVoters ==
    \A i, j \in 1..Len(dposVotes) :
        i /= j => dposVotes[i].VoterNodeAddress /= dposVotes[j].VoterNodeAddress

\* Every voter has an entry in the pool, and one of them carries a later
\* timestamp than the other: each further vote meets an entry of its voter.
EveryVoterInPool ==
    /\ Len(dposVotes) = NumVoters
    /\ \E i, j \in 1..Len(dposVotes) : dposVotes[i].VoteTimestamp < dposVotes[j].VoteTimestamp

\* C3: a vote that passes the staleness guard and whose signature some entry
\* of the pool carries, at any position, is discarded: AddVotes leaves the
\* pool unchanged.
SignatureDedupAnyPosition ==
    [][\A vote \in Votes :
          (AddVotes(vote) /\ ~IsOldVote(lastVote, vote) /\ SigInPool(vote))
              => dposVotes' = dposVotes]_vars

\* C13: AddVotes is idempotent: for every pool, lastVote and vote, a second
\* AddVotes of the same vote leaves the pool as the first one left it.
AddVotesIdempotent ==
    \A vote \in Votes :
        LET once == AddVotesResult(dposVotes, lastVote, vote)
        IN  AddVotesResult(once, lastVote, vote) = once

\* Every voter has an entry in the pool, the first entry carries the later
\* timestamp, and a last vote is recorded
ReplacedInFrontWithLastVote ==
    /\ lastVote /= Nil
    /\ Len(dposVotes) = NumVoters
    /\ dposVotes[1].VoteTimestamp = 2

\* The position of the entry of this voter in the pool (0: none)
VoterIndex(votes, addr) ==
    IF \E i \in 1..Len(votes) : votes[i].VoterNodeAddress = addr
    THEN CHOOSE i \in 1..Len(votes) : votes[i].VoterNodeAddress = addr
    ELSE 0

StalenessGuard ==
    /\ [](\A vote \in Votes :
             lastVote /= Nil =>
                 IF vote.VoteItem.PeriodStart < lastVote.PeriodStop
                 THEN AddVotesResult(dposVotes, lastVote, vote) = dposVotes
                 ELSE (\A i \in 1..Len(dposVotes) :
                          /\ dposVotes[i].Signature /= vote.Signature
                          /\ dposVotes[i].VoterNodeAddress /= vote.VoterNodeAddress)
                      => AddVotesResult(dposVotes, lastVote, vote) = Append(dposVotes, vote))
    /\ [][\A i \in 1..Len(dposVotes') :
             (lastVote /= Nil /\ (i > Len(dposVotes) \/ dposVotes'[i] /= dposVotes[i]))
             => /\ dposVotes'[i].VoteItem.PeriodStart >= lastVote.PeriodStop
                /\ UNCHANGED <<currentVote, lastVote, myVote, cachedVotes, cycleBoundaryMap,
                               dispVars>>]_vars

\* A vote that starts exactly at the stop of the last vote is in the pool
VoteAtPeriodStopAdmitted ==
    /\ lastVote /= Nil
    /\ \E i \in 1..Len(dposVotes) : dposVotes[i].VoteItem.PeriodStart = lastVote.PeriodStop

\* C21: CacheVotes applies to cachedVotes the rules AddVotes applies to
\* dposVotes, without the staleness guard: fed side by side from empty pools
\* with no last vote, the two pools are equal after every step; on every
\* cached pool CacheVotes does what AddVotes does with no last vote, so it
\* admits a vote that starts before the stop of the last vote; and a
\* CacheVotes call leaves dposVotes as it is.
CacheVotesAsAddVotes ==
    /\ [](/\ lastVote = Nil => cachedVotes = dposVotes
          /\ \A vote \in Votes :
                 /\ CacheVotesResult(cachedVotes, vote) = AddVotesResult(cachedVotes, Nil, vote)
                 /\ (/\ lastVote /= Nil
                     /\ vote.VoteItem.PeriodStart < lastVote.PeriodStop
                     /\ cachedVotes = <<>>)
                    => CacheVotesResult(cachedVotes, vote) = <<vote>>)
    /\ [][(lastVote /= Nil /\ cachedVotes' /= cachedVotes) => dposVotes' = dposVotes]_vars

\* With no last vote both pools hold every voter's entry, the first of them
\* with the later timestamp
BothPoolsFedSideBySide ==
    /\ lastVote = Nil
    /\ Len(cachedVotes) = NumVoters
    /\ Len(dposVotes) = NumVoters
    /\ cachedVotes[1].VoteTimestamp = 2

\* C8: the pool never shrinks except by ClearVotes: every other step leaves
\* its length as it was or one greater, and a step that shortens it is a
\* ClearVotes step that empties it.
PoolShrinksOnlyByClear ==
    [][\/ Len(dposVotes') \in {Len(dposVotes), Len(dposVotes) + 1}
       \/ (ClearVotes /\ Len(dposVotes') = 0)]_vars

\* The pool holds two votes and one of them has the later timestamp of its
\* voter: AddVotes has appended, and the pool is there to be cleared.
PoolGrown ==
    /\ Len(dposVotes) >= 2
    /\ \E i \in 1..Len(dposVotes) : dposVotes[i].VoteTimestamp > 1

\* C9: lastVote, once non-nil, is never nil again, and after a SaveVote with
\* a non-nil currentVote lastVote carries currentVote's vote_id.
LastVoteNeverReset ==
    [][/\ lastVote /= Nil => lastVote' /= Nil
       /\ (SaveVote /\ currentVote /= Nil) => lastVote'.VoteID = currentVote.VoteID]_vars

\* lastVote is set, the pool was cleared and currentVote is nil again
LastVoteKeptAfterClear ==
    /\ lastVote /= Nil
    /\ currentVote = Nil
    /\ dposVotes = <<>>

---------------------------------------------------------------------------
(* Properties of the tally *)

\* The reference tally: M = floor(N*2/3), c* the largest number of pool
\* entries that share one vote_id
CountOf(votes, id) == Cardinality({i \in 1..Len(votes) : votes[i].VoteItem.VoteID = id})
CStar(votes) ==
    LET counts == {CountOf(votes, votes[i].VoteItem.VoteID) : i \in 1..Len(votes)} \cup {0}
    IN  CHOOSE c \in counts : \A d \in counts : c >= d
RefTally(votes, n) ==
    LET M == (n * 2) \div 3 IN
    IF Len(votes) < M THEN continueToVote
    ELSE IF CStar(votes) >= M THEN voteSuccess
         ELSE IF CStar(votes) + (n - Len(votes)) < M THEN voteFail
              ELSE continueToVote

\* A pool of a votes for vote_id 1, b for vote_id 2 and c for vote_id 3, each
\* of another voter
SplitPool(a, b, c) ==
    [i \in 1..(a + b + c) |->
        MkVote(i, i, 1, MkItem(IF i <= a THEN 1 ELSE IF i <= a + b THEN 2 ELSE 3, 0))]

\* Every outcome CheckVotes may return for a pool, over the orders of the range
Outcomes(votes, n) ==
    {CheckVotesResult(votes, n, order) : order \in RangeOrders(DOMAIN VoteStat(votes))}

\* The cases of N = 21, M = 14
TallyOf21 ==
    /\ \A r \in Outcomes(SplitPool(13, 0, 0), 21) : r.ty = continueToVote
    /\ \A r \in Outcomes(SplitPool(14, 0, 0), 21) : r.ty = voteSuccess /\ r.vote.VoteID = 1
    /\ \A r \in Outcomes(SplitPool(8, 7, 6), 21) : r.ty = voteFail
    /\ \A r \in Outcomes(SplitPool(10, 4, 0), 21) : r.ty = continueToVote

\* C4: CheckVotes classifies the pool as the reference tally does, whatever
\* order the range over the counts takes, a voteSuccess returns a VoteItem
\* of a vote_id with the largest count, the cases of N = 21 come out as
\* stated, and CheckVotes does not modify the pool.
CheckVotesAsReference ==
    [][ret' /= NoReturn =>
          /\ dposVotes' = dposVotes
          /\ ret'.ty = RefTally(dposVotes, dposDelegateNum)
          /\ ret'.ty = voteSuccess => CountOf(dposVotes, ret'.vote.VoteID) = CStar(dposVotes)
          /\ TallyOf21]_vars

\* CheckVotes has returned voteFail: as many votes as delegates, no majority
TallyFailed ==
    /\ ret /= NoReturn
    /\ ret.ty = voteFail
    /\ Len(dposVotes) = dposDelegateNum

\* C5: whenever CheckVotes returns voteSuccess, the vote_id of the VoteItem
\* it returns is determined by the pool: two evaluations on the same pool
\* never return VoteItems with different vote_ids.
TieBreakNotObservable ==
    [][(/\ ret /= NoReturn
        /\ ret' /= NoReturn
        /\ ret.ty = voteSuccess
        /\ ret'.ty = voteSuccess
        /\ dposVotes' = dposVotes)
            => ret'.vote.VoteID = ret.vote.VoteID]_vars

\* C6: once CheckVotes has returned voteFail for the pool, no AddVotes leads
\* to a pool for which CheckVotes returns voteSuccess.
VoteFailIsFinal ==
    [][(/\ ret /= NoReturn
        /\ ret.ty = voteFail
        /\ \E vote \in TallyVotes : AddVotes(vote))
            => \A r \in Outcomes(dposVotes', dposDelegateNum) : r.ty /= voteSuccess]_vars

---------------------------------------------------------------------------
(* Properties of the cycle-boundary cache *)

SmallestCycle(map) == CHOOSE c \in DOMAIN map : \A d \in DOMAIN map : c <= d

\* C10: when the cache holds 5 entries and UpdateCBInfo is called with a
\* cycle that is not a key, the entry with the smallest cycle key is evicted,
\* every other entry is kept and the new one is inserted, whatever the keys
\* (cycle 0 among them) and whatever the order of the range over the map.
EvictsSmallestCycle ==
    [][(/\ Cardinality(DOMAIN cycleBoundaryMap) = CBCapacity
        /\ DOMAIN cycleBoundaryMap' \ DOMAIN cycleBoundaryMap /= {})
            => /\ DOMAIN cycleBoundaryMap \ DOMAIN cycleBoundaryMap' = {SmallestCycle(cycleBoundaryMap)}
               /\ Cardinality(DOMAIN cycleBoundaryMap' \ DOMAIN cycleBoundaryMap) = 1
               /\ \A c \in DOMAIN cycleBoundaryMap \cap DOMAIN cycleBoundaryMap' :
                      cycleBoundaryMap'[c] = cycleBoundaryMap[c]]_vars

\* C11: the cache never holds more than 5 entries; right after
\* UpdateCBInfo(info) the lookup of info.Cycle returns info, and the lookup
\* of a cycle that is not a key returns nil.
CacheBoundedAndLookup ==
    /\ Cardinality(DOMAIN cycleBoundaryMap) <= CBCapacity
    /\ \A info \in CBInfos : \A order \in RangeOrders(DOMAIN cycleBoundaryMap) :
           LET after == UpdateCBInfoResult(cycleBoundaryMap, info, order)
           IN  /\ GetCBInfoResult(after, info.Cycle) = info
               /\ \A cycle \in 0..MaxCycle :
                      cycle \notin DOMAIN after => GetCBInfoResult(after, cycle) = Nil
    /\ ret \notin {NoReturn, Nil} => (ret.Cycle \in DOMAIN cycleBoundaryMap /\ cycleBoundaryMap[ret.Cycle] = ret)

\* The cache is full and the lookup of a cycle it does not hold returned nil
LookupMissOnFullCache ==
    /\ Cardinality(DOMAIN cycleBoundaryMap) = CBCapacity
    /\ ret = Nil

\* C12: UpdateCBInfo is idempotent: applied again with the info it has just
\* stored it leaves the cache as it is; and an update of a cycle that is a
\* key overwrites that entry and evicts no other, also when the cache is full.
UpdateCBInfoIdempotent ==
    /\ \A cycle \in DOMAIN cycleBoundaryMap : \A order \in RangeOrders(DOMAIN cycleBoundaryMap) :
           UpdateCBInfoResult(cycleBoundaryMap, cycleBoundaryMap[cycle], order) = cycleBoundaryMap
    /\ \A info \in CBInfos : \A order \in RangeOrders(DOMAIN cycleBoundaryMap) :
           info.Cycle \in DOMAIN cycleBoundaryMap =>
               LET after == UpdateCBInfoResult(cycleBoundaryMap, info, order)
               IN  /\ DOMAIN after = DOMAIN cycleBoundaryMap
                   /\ after[info.Cycle] = info
                   /\ \A cycle \in DOMAIN after \ {info.Cycle} : after[cycle] = cycleBoundaryMap[cycle]

\* The cache is full, holds cycle 0 and entries of both stop heights, and a
\* lookup has just returned one of them
FullCacheWithBothHeights ==
    /\ Cardinality(DOMAIN cycleBoundaryMap) = CBCapacity
    /\ 0 \in DOMAIN cycleBoundaryMap
    /\ \E c, d \in DOMAIN cycleBoundaryMap :
           cycleBoundaryMap[c].StopHeight /= cycleBoundaryMap[d].StopHeight
    /\ ret \notin {NoReturn, Nil}

---------------------------------------------------------------------------
(* Properties of the dispatcher *)

\* C7: a panic inside a handler is caught and the loop continues: the only
\* event after which receiveRoutine stops taking events is the quit signal,
\* so it has returned only if it received that signal.
LoopEndsOnlyOnQuit == routine = "returned" => quitReceived

\* C16: Start is idempotent: whatever the number of Start calls and however
\* they interleave, one receiveRoutine is launched, the ticker is started
\* once and one initial timeout is scheduled, and a Start call that finds
\* started set changes nothing.
StartTakesEffectOnce ==
    /\ [](/\ launched <= 1
          /\ tickerStarts <= 1
          /\ initTimeouts <= 1
          /\ started = 0 => (launched = 0 /\ tickerStarts = 0 /\ initTimeouts = 0)
          /\ startPc = "done" => (launched = 1 /\ tickerStarts = 1 /\ initTimeouts = 1))
    /\ [][(startCalls' /= startCalls /\ started = 1)
          => UNCHANGED <<started, stopped, startPc, launched, tickerStarts, initTimeouts,
                         tickerVars, queueVars, stopVars, routineVars, callerVars,
                         poolAndCache>>]_vars

\* Every Start call of the model was made, the one that won has finished,
\* and the loop it launched runs
StartCalledAgainAfterLaunch ==
    /\ startCalls = MaxStartCalls
    /\ startPc = "done"
    /\ launched = 1
    /\ routine = "select"

\* C17: after Stop is called on a started dispatcher the loop eventually
\* returns; it takes the quit signal in its select only, with no handler in
\* progress, and after it took the quit signal it has returned and runs no
\* handler.
StopEndsLoop ==
    /\ (stopCalls > 0 /\ started = 1) ~> (routine = "returned")
    /\ [](quitReceived => routine = "returned")
    /\ [][(quitReceived' /\ ~quitReceived)
          => (routine = "select" /\ mtx = "free" /\ routine' = "returned")]_vars

\* The loop returned on the quit signal of a Stop while messages and a
\* timeout it will never handle wait
QuitTakenBeforeQueuedMessages ==
    /\ quitReceived
    /\ routine = "returned"
    /\ stopReturned = 1
    /\ peerMsgQueue /= <<>>
    /\ internalMsgQueue /= <<>>
    /\ tockChan = 1

\* C18: the handlers are serialized: one receiveRoutine runs them, the
\* handler of a state runs with cs.mtx held by the dispatcher, no accessor
\* that takes cs.mtx is inside its body meanwhile, and cs.dposState holds one
\* state object, which changes inside a handler only.
HandlersSerialized ==
    /\ [](/\ launched <= 1
          /\ routine \in InHandler => (mtx = "dispatcher" /\ accessor = "idle")
          /\ accessor /= "idle" => (mtx = "accessor" /\ routine \notin InHandler)
          /\ dposState \in StateObjs)
    /\ [][dposState' /= dposState => (routine \in InHandler /\ mtx = "dispatcher")]_vars

\* handleMsg waits in cs.mtx.Lock() while an accessor holds the mutex, after
\* an earlier handler has changed the state
HandlerWaitsForAccessor ==
    /\ routine = "handleMsg"
    /\ accessor = "GetValidators"
    /\ dposState /= "InitStateObj"

\* The accesses to fields of ConsensusState that the next steps of the
\* goroutines make: the goroutine, the field, whether it writes, and whether
\* the goroutine holds cs.mtx
PendingAccesses ==
    (IF routine = "loop"
     THEN {[thread |-> "receiveRoutine", field |-> "timeoutTicker", write |-> FALSE, locked |-> FALSE]}
     ELSE {})
    \cup
    (IF routine \in InHandler
     THEN {[thread |-> "receiveRoutine", field |-> "dposState", write |-> TRUE, locked |-> mtx = "dispatcher"]}
     ELSE {})
    \cup
    (IF startPc \in {"tickerStart", "schedule"}
     THEN {[thread |-> "Start", field |-> "timeoutTicker", write |-> FALSE, locked |-> FALSE]}
     ELSE {})
    \cup
    (IF accessor = "SetTimeoutTicker"
     THEN {[thread |-> "SetTimeoutTicker", field |-> "timeoutTicker", write |-> TRUE, locked |-> mtx = "accessor"]}
     ELSE {})
    \cup
    (IF accessor = "SetPrivValidator"
     THEN {[thread |-> "SetPrivValidator", field |-> "privValidator", write |-> TRUE, locked |-> mtx = "accessor"]}
     ELSE {})
    \cup
    (IF accessor \in {"GetValidatorMgr", "GetValidators"}
     THEN {[thread |-> accessor, field |-> "validatorMgr", write |-> FALSE, locked |-> mtx = "accessor"]}
     ELSE {})

\* C19: cs.mtx protects every field of ConsensusState: no state is reached in
\* which two goroutines are about to access the same field, one of them
\* writing, without both holding the mutex.
NoUnprotectedConflict ==
    \A a, b \in PendingAccesses :
        (a.thread /= b.thread /\ a.field = b.field /\ (a.write \/ b.write))
        => (a.locked /\ b.locked)

\* C20: VerifyVote and VerifyNotify return true only for a message whose
\* sender address is the address of a validator of the current set and whose
\* signature verifies under that validator's public key with the chain id of
\* the manager; they return false for every message whose sender is no
\* validator; and they change no field of ConsensusState.
VerifyOnlyValidatorSigned ==
    /\ [](\A address \in Addresses : \A signature \in SignatureValues :
             LET validators == validatorMgr.Validators
                 members == {i \in 1..Len(validators) : validators[i].Address = address}
                 vote == [VoterNodeAddress |-> address, Signature |-> signature]
                 notify == [NotifyNodeAddress |-> address, Signature |-> signature]
                 accepted == {VerifyResult(validatorMgr, vote.VoterNodeAddress, vote.Signature),
                              VerifyResult(validatorMgr, notify.NotifyNodeAddress, notify.Signature)}
             IN  /\ members = {} => accepted = {FALSE}
                 /\ TRUE \in accepted
                    => \E i \in members :
                           /\ validators[i].PubKey /= 0
                           /\ signature.key = validators[i].PubKey
                           /\ signature.chain = validatorMgr.ChainID
                           /\ signature.intact)
    /\ [][ret' \in {Bool(TRUE), Bool(FALSE)} => UNCHANGED <<poolVars, cachedVotes, dposDelegateNum,
                                                              cycleBoundaryMap, validatorMgr,
                                                              dispVars>>]_vars

\* A message was verified under a manager that has a chain id other than the
\* first and does not hold every address
VerifiedUnderPartialSet ==
    /\ ret = Bool(TRUE)
    /\ validatorMgr.ChainID = 2
    /\ Len(validatorMgr.Validators) < NumAddresses

\* C22: no operation sets the stopped flag, so IsRunning returns false
\* before the first Start call and true in every state after it, also after
\* Stop has returned and after receiveRoutine has returned.
IsRunningSinceFirstStart ==
    /\ [](/\ stopped = 0
          /\ IsRunningResult(started, stopped) = (startCalls > 0))
    /\ [][/\ stopped' = stopped
          /\ ret' /= ret => ret' = [bool |-> startCalls > 0]]_vars

\* IsRunning has returned true, Stop has returned and receiveRoutine has
\* returned
RunningAfterStopReturned ==
    /\ ret = [bool |-> TRUE]
    /\ stopReturned = 1
    /\ routine = "returned"

===========================================================================
